---------------------------- MODULE Spec2Model ----------------------------
(***************************************************************************)
(* A model of database/SNOTEL/snotel_to_db.py: the water-year table        *)
(* reconstruction and merge of import_snotel, and the per-site table       *)
(* writer write_db with its dedup read get_unique_dates.                   *)
(*                                                                         *)
(* Representation.  Text read from the CSV (row labels, column labels) is  *)
(* a sequence of one-character strings, so that int() and strptime() are   *)
(* real parsers that can fail.  A timestamp is an integer number of clock  *)
(* ticks, TicksPerDay ticks to the day, counted from the proleptic         *)
(* Gregorian ordinal of the day; midnight is tick 0 of its day.  A NaN     *)
(* cell of a frame column is a key missing from the column's map.          *)
(***************************************************************************)
EXTENDS Integers, Sequences, FiniteSets, TLC

VARIABLES
    now,          \* the wall clock, in ticks
    catalog,      \* snotel_sites.triplet: the sites of the run
    vars,         \* import_snotel's vars argument
    siteIdx,      \* position of the __main__ loop in catalog
    pc,           \* position of the import run
    varIdx,       \* position of "for var in vars"
    failed,       \* the retry loop's flag
    tries,        \* the retry loop's counter
    csv_str,      \* the body of the last successful GET
    f,            \* the parsed water-year table
    yearIdx,      \* position of "for year in f.columns"
    snotel_in,    \* the frame under reconstruction
    snotel_dict,  \* var -> reconstructed frame
    csv,          \* site -> the merged frame saved by to_csv
    err,          \* the uncaught exception that ended the import run
    dbfile,       \* whether the sqlite file exists
    tables,       \* table name -> rows, the tables of the sqlite file
    run,          \* the write_db runs: arguments, locals, position
    started,      \* number of write_db runs started so far
    faults        \* number of sqlite3 errors the environment has raised

importVars == <<now, catalog, vars, siteIdx, pc, varIdx, failed, tries,
                csv_str, f, yearIdx, snotel_in, snotel_dict, csv, err>>
writeVars == <<dbfile, tables, run, started, faults>>
allVars == <<importVars, writeVars>>

-----------------------------------------------------------------------------
(* Bounds of the model.                                                    *)

TicksPerDay == 2        \* clock resolution: ticks in a day
MaxElapse == 1          \* most ticks the clock advances during a run
MaxCells == 3           \* most reported cells of a table (reconstruction)
MaxImportCells == 1     \* most reported cells of a table (whole import run)
MaxTries == 12          \* cap on the retry counter
MaxRuns == 2            \* most write_db runs on one store
MaxDate == 2            \* the dates of the merged table are 1..MaxDate
MaxFaults == 1          \* most sqlite3 errors raised by the environment

Values == {1, 2}        \* measurement values of the reconstruction inputs
ImportValues == {1}     \* measurement values of the whole-run inputs

-----------------------------------------------------------------------------
(* Text and its parsers.                                                   *)

Digits == {"0", "1", "2", "3", "4", "5", "6", "7", "8", "9"}

DigitVal(c) ==
    CASE c = "0" -> 0 [] c = "1" -> 1 [] c = "2" -> 2 [] c = "3" -> 3
      [] c = "4" -> 4 [] c = "5" -> 5 [] c = "6" -> 6 [] c = "7" -> 7
      [] c = "8" -> 8 [] c = "9" -> 9

RECURSIVE DecVal(_)
DecVal(s) ==
    IF s = <<>> THEN 0
    ELSE 10 * DecVal(SubSeq(s, 1, Len(s) - 1)) + DigitVal(s[Len(s)])

\* int(text) returns: text is a non-empty run of decimal digits (signs,
\* blanks and underscores do not occur in the labels of the model).
IntOk(s) == Len(s) > 0 /\ \A i \in 1..Len(s) : s[i] \in Digits

\* int(text) where IntOk(text).
IntOf(s) == DecVal(s)

\* text[:2]
Prefix2(s) == SubSeq(s, 1, IF Len(s) < 2 THEN Len(s) ELSE 2)

-----------------------------------------------------------------------------
(* The calendar of datetime.                                               *)

IsLeap(y) == y % 4 = 0 /\ (y % 100 # 0 \/ y % 400 = 0)

DaysInMonth(y, m) ==
    CASE m \in {1, 3, 5, 7, 8, 10, 12} -> 31
      [] m \in {4, 6, 9, 11} -> 30
      [] m = 2 -> IF IsLeap(y) THEN 29 ELSE 28

RECURSIVE DaysBeforeMonth(_, _)
DaysBeforeMonth(y, m) ==
    IF m = 1 THEN 0 ELSE DaysBeforeMonth(y, m - 1) + DaysInMonth(y, m - 1)

DaysBeforeYear(y) ==
    (y - 1) * 365 + ((y - 1) \div 4) - ((y - 1) \div 100) + ((y - 1) \div 400)

\* date(y, m, d).toordinal()
Ordinal(y, m, d) == DaysBeforeYear(y) + DaysBeforeMonth(y, m) + d

\* The timestamp of midnight of a day.
Midnight(ord) == ord * TicksPerDay

\* The day a timestamp falls in.
DayOf(ts) == ts \div TicksPerDay

\* Whether "MM-DD" text has the shape %m-%d reads: two digits, a dash,
\* two digits.
LabelShape(i) ==
    /\ Len(i) = 5
    /\ i[3] = "-"
    /\ \A k \in {1, 2, 4, 5} : i[k] \in Digits

LabelMonth(i) == DecVal(SubSeq(i, 1, 2))
LabelDay(i) == DecVal(SubSeq(i, 4, 5))

\* Whether strptime(f"{i}-{year}", "%m-%d-%Y") returns (else ValueError).
StrpOk(i, year) ==
    /\ LabelShape(i)
    /\ year \in 1000..9999
    /\ LabelMonth(i) \in 1..12
    /\ LabelDay(i) \in 1..DaysInMonth(year, LabelMonth(i))

\* Its result where StrpOk: midnight of that date.
StrpTime(i, year) == Midnight(Ordinal(year, LabelMonth(i), LabelDay(i)))

\* pd.date_range(start, end, freq="D"): start, start + 1 day, ... up to end.
DateRange(start, end) ==
    IF end < start THEN <<>>
    ELSE [k \in 1..((end - start) \div TicksPerDay + 1) |->
             start + (k - 1) * TicksPerDay]

Range(s) == {s[k] : k \in 1..Len(s)}


-----------------------------------------------------------------------------
(* Water-year tables: what read_csv(..., index_col=0) returns.  index is   *)
(* the row labels, columns the column labels, cells the reported (non-NaN) *)
(* cells as a map from <<row, column>> positions to values.                *)

L1001 == <<"1", "0", "-", "0", "1">>
L1002 == <<"1", "0", "-", "0", "2">>
L1003 == <<"1", "0", "-", "0", "3">>
L1004 == <<"1", "0", "-", "0", "4">>
L0229 == <<"0", "2", "-", "2", "9">>
L0930 == <<"0", "9", "-", "3", "0">>
L0115 == <<"0", "1", "-", "1", "5">>
LDate == <<"d", "a", "t", "e">>

C2020 == <<"2", "0", "2", "0">>
C2021 == <<"2", "0", "2", "1">>
CMin == <<"M", "i", "n">>

\* Row labels in the published (water-year) order, a sample of the 366.
Rows == <<L1001, L1002, L0229, L0930>>
ShortRows == <<L1001, L0930>>

\* The date the publisher means by a cell: the last day of the month stands
\* in for a leap day of a year that has none.
CellDay(i, col) ==
    LET y == IF LabelMonth(i) >= 10 THEN IntOf(col) - 1 ELSE IntOf(col)
        m == LabelMonth(i)
        d == IF LabelDay(i) > DaysInMonth(y, m) THEN DaysInMonth(y, m)
             ELSE LabelDay(i)
    IN  Ordinal(y, m, d)

\* No table reports a day that has not come yet.
Reported(t, clock) ==
    \A rc \in DOMAIN t.cells :
        CellDay(t.index[rc[1]], t.columns[rc[2]]) <= DayOf(clock)

\* The tables of shape (rows, cols) with at most k reported cells, all
\* under integer columns, with values in vals.
TablesOf(rows, cols, k, vals) ==
    LET cells == {rc \in (1..Len(rows)) \X (1..Len(cols)) : IntOk(cols[rc[2]])}
        doms == {D \in SUBSET cells : Cardinality(D) <= k}
    IN  UNION {{[index |-> rows, columns |-> cols, cells |-> g] :
                   g \in [D -> vals]} : D \in doms}

\* A cumulative precipitation record of four consecutive days with a drop.
PrecExample ==
    [index |-> <<L1001, L1002, L1003, L1004>>,
     columns |-> <<C2020>>,
     cells |-> (<<1, 1>> :> 100) @@ (<<2, 1>> :> 100) @@ (<<3, 1>> :> 98)
                 @@ (<<4, 1>> :> 105)]

\* Two water years with a value on each side of the October boundary.
BoundaryExample ==
    [index |-> <<L1001, L0115, L0930>>,
     columns |-> <<C2020, C2021>>,
     cells |-> (<<1, 2>> :> 5) @@ (<<2, 2>> :> 7) @@ (<<3, 1>> :> 9)]

\* Inputs of the reconstruction: well-formed tables with a statistics
\* column between two water years, or of the later water year alone.
ReconTables ==
    TablesOf(Rows, <<C2020, CMin, C2021>>, MaxCells, Values)
      \cup TablesOf(Rows, <<C2021>>, MaxCells, Values)
      \cup {PrecExample, BoundaryExample}

\* Tables that are not water-year tables: no integer column, a first row
\* label that is no day, no rows, no columns.
Malformed ==
    { [index |-> ShortRows, columns |-> <<CMin>>, cells |-> <<>>],
      [index |-> <<LDate, L1001>>, columns |-> <<C2021>>, cells |-> <<>>],
      [index |-> <<>>, columns |-> <<C2021>>, cells |-> <<>>],
      [index |-> ShortRows, columns |-> <<>>, cells |-> <<>>] }

\* Inputs of a whole import run: sparse well-formed tables of two windows,
\* and malformed ones.
ImportTables ==
    TablesOf(ShortRows, <<C2020, C2021>>, MaxImportCells, ImportValues)
      \cup TablesOf(ShortRows, <<C2021>>, MaxImportCells, ImportValues)
      \cup Malformed

-----------------------------------------------------------------------------
(* Frames.  A frame is [index |-> sequence of timestamps, cols |-> map     *)
(* from column name to the column's non-NaN cells, timestamp -> value].    *)

NoCols == [c \in {} |-> <<>>]
NoCells == [t \in {} |-> 0]
NoFrame == [index |-> <<>>, cols |-> NoCols]

\* frame[c] at ts, "nan" standing for NaN in what is compared.
HasCell(frame, c, ts) == c \in DOMAIN frame.cols /\ ts \in DOMAIN frame.cols[c]

\* m with column c set to col.
WithCol(cols, c, col) ==
    [x \in DOMAIN cols \cup {c} |-> IF x = c THEN col ELSE cols[x]]

\* frame.loc[keys, c] = series, where series is a map on exactly keys and
\* every key is in the index: a missing column is created, the cells at
\* keys are overwritten, the others kept.
LocAssign(frame, c, series) ==
    LET old == IF c \in DOMAIN frame.cols THEN frame.cols[c] ELSE NoCells
        new == [t \in DOMAIN old \cup DOMAIN series |->
                   IF t \in DOMAIN series THEN series[t] ELSE old[t]]
    IN  [frame EXCEPT !.cols = WithCol(frame.cols, c, new)]

-----------------------------------------------------------------------------
(* import_snotel and the __main__ loop that calls it.                      *)

\* The clock when the run starts, the last tick of 2021-03-01: water year
\* 2020 is complete, 2021 is not.  A clock read returns the time then, some
\* ticks later than the read before it.
Now0 == Midnight(Ordinal(2021, 3, 1)) + TicksPerDay - 1

NoTable == [index |-> <<>>, columns |-> <<>>, cells |-> <<>>]
NoErr == [exc |-> "none"]

\* An exception nothing catches: neither import_snotel nor the __main__
\* loop has a handler, so the process ends there.
Raise(exc, line, site, var) ==
    /\ pc' = "aborted"
    /\ err' = [exc |-> exc, line |-> line, site |-> site, var |-> var]

\* The head of one pass of "for var in vars" (lines 66-75), or the end of
\* the loop.
EnterVar(k) ==
    /\ varIdx' = k
    /\ failed' = TRUE
    /\ tries' = 0
    /\ csv_str' = NoTable
    /\ pc' = IF k <= Len(vars) THEN "fetch" ELSE "merge"

\* __main__, lines 327-329, and import_snotel to its first variable.
ImportSite ==
    /\ pc = "main"
    /\ siteIdx <= Len(catalog)
    /\ snotel_dict' = NoCols
    /\ EnterVar(1)
    /\ UNCHANGED <<now, catalog, vars, siteIdx, f, yearIdx, snotel_in, csv,
                   err, writeVars>>

\* __main__ past its loop over the catalog.
ImportsDone ==
    /\ pc = "main"
    /\ siteIdx > Len(catalog)
    /\ pc' = "finished"
    /\ UNCHANGED <<now, catalog, vars, siteIdx, varIdx, failed, tries, csv_str,
                   f, yearIdx, snotel_in, snotel_dict, csv, err,
                   writeVars>>

\* One pass of the retry loop whose GET returns (lines 76-79, 88): the body
\* is kept, failed is cleared and the loop condition ends the loop.
FetchOk(T) ==
    /\ pc = "fetch"
    /\ failed
    /\ \E t \in T :
        /\ Reported(t, now)
        /\ csv_str' = t
    /\ failed' = FALSE
    /\ pc' = "index"
    /\ UNCHANGED <<now, catalog, vars, siteIdx, varIdx, tries, f, yearIdx,
                   snotel_in, snotel_dict, csv, err, writeVars>>

\* One pass of the retry loop whose GET times out or cannot connect (lines
\* 76-90): tries is counted, both branches of "tries <= 10" go back to the
\* loop head and failed stays set.
FetchFail ==
    /\ pc = "fetch"
    /\ failed
    /\ tries < MaxTries
    /\ tries' = tries + 1
    /\ UNCHANGED <<now, catalog, vars, siteIdx, pc, varIdx, failed, csv_str, f,
                   yearIdx, snotel_in, snotel_dict, csv, err, writeVars>>

\* Lines 92-101: parse the body and build the date index of the variable,
\* from the first row label in the year before the first column to today.
BuildIndex ==
    /\ pc = "index"
    /\ \E later \in now..(Now0 + MaxElapse) : now' = later
    /\ f' = csv_str
    /\ LET t == csv_str
           site == catalog[siteIdx]
           var == vars[varIdx]
       IN  IF Len(t.index) = 0 \/ Len(t.columns) = 0
           THEN /\ Raise("IndexError", 96, site, var)
                /\ UNCHANGED <<yearIdx, snotel_in>>
           ELSE IF ~IntOk(t.columns[1])
                   \/ ~StrpOk(t.index[1], IntOf(t.columns[1]) - 1)
           THEN /\ Raise("ValueError", 96, site, var)
                /\ UNCHANGED <<yearIdx, snotel_in>>
           ELSE /\ snotel_in' =
                     [index |-> DateRange(
                                   StrpTime(t.index[1], IntOf(t.columns[1]) - 1),
                                   now'),
                      cols |-> NoCols]
                /\ yearIdx' = 1
                /\ pc' = "year"
                /\ UNCHANGED err
    /\ UNCHANGED <<catalog, vars, siteIdx, varIdx, failed, tries, csv_str,
                   snotel_dict, csv, writeVars>>

\* Lines 115-118 for one row label under an integer column: the calendar
\* year of the row.
CalendarYear(i, year) ==
    IF IntOf(Prefix2(i)) >= 10 THEN IntOf(year) - 1 ELSE IntOf(year)

\* Whether lines 115-118 return for the row: int(i[:2]) and strptime both do.
RowOk(i, year) == IntOk(Prefix2(i)) /\ StrpOk(i, CalendarYear(i, year))

\* The timestamp lines 115-118 append for the row.
RowDate(i, year) == StrpTime(i, CalendarYear(i, year))

\* One pass of "for year in f.columns", lines 104-123.
YearColumn ==
    /\ pc = "year"
    /\ yearIdx <= Len(f.columns)
    /\ LET year == f.columns[yearIdx]
           site == catalog[siteIdx]
           var == vars[varIdx]
           \* year_data = f.loc[:, year].dropna(): the reported rows
           rows == {r \in 1..Len(f.index) : <<r, yearIdx>> \in DOMAIN f.cells}
       IN  IF ~IntOk(year)
           THEN \* lines 105-108: not a water year, skipped
                /\ yearIdx' = yearIdx + 1
                /\ UNCHANGED <<pc, snotel_in, err>>
           ELSE IF \E r \in rows : ~RowOk(f.index[r], year)
           THEN \* strptime (or int) raises ValueError inside the row loop
                /\ Raise("ValueError", 118, site, var)
                /\ UNCHANGED <<yearIdx, snotel_in>>
           ELSE LET keys == {RowDate(f.index[r], year) : r \in rows}
                    series == [ts \in keys |->
                                  LET r == CHOOSE q \in rows :
                                              RowDate(f.index[q], year) = ts
                                  IN  f.cells[<<r, yearIdx>>]]
                IN  IF \E ts \in keys :
                           \A k \in 1..Len(snotel_in.index) :
                               snotel_in.index[k] # ts
                    THEN \* .loc with labels that are not in the index
                         /\ Raise("KeyError", 123, site, var)
                         /\ UNCHANGED <<yearIdx, snotel_in>>
                    ELSE /\ snotel_in' = LocAssign(snotel_in, var, series)
                         /\ yearIdx' = yearIdx + 1
                         /\ UNCHANGED <<pc, err>>
    /\ UNCHANGED <<now, catalog, vars, siteIdx, varIdx, failed, tries, csv_str,
                   f, snotel_dict, csv, writeVars>>

\* Lines 130-131: the day-over-day difference of a cumulative column along
\* the index, NaN where either day is NaN, negative differences set to 0.
ClampNone(x) == x

Clamp(x) == IF x < 0 THEN 0 ELSE x

\* The position of a timestamp in an index that holds it.
PosOf(index, ts) == CHOOSE k \in 1..Len(index) : index[k] = ts

IncrementalPrecip(index, cum) ==
    LET at == {ts \in DOMAIN cum :
                  /\ PosOf(index, ts) > 1
                  /\ index[PosOf(index, ts) - 1] \in DOMAIN cum}
    IN  [ts \in at |-> Clamp(cum[ts] - cum[index[PosOf(index, ts) - 1]])]

\* Lines 126-134 and the step to the next variable.  The column var exists:
\* line 96 let the first column through as an integer, so line 123 ran.
StoreVar ==
    /\ pc = "year"
    /\ yearIdx > Len(f.columns)
    /\ LET var == vars[varIdx]
           frame == IF var = "PREC"
                    THEN [snotel_in EXCEPT !.cols =
                             WithCol(snotel_in.cols, "PREC",
                                     IncrementalPrecip(snotel_in.index,
                                                       snotel_in.cols[var]))]
                    ELSE snotel_in
       IN  /\ snotel_in' = frame
           /\ snotel_dict' = WithCol(snotel_dict, var, frame)
    /\ EnterVar(varIdx + 1)
    /\ UNCHANGED <<now, catalog, vars, siteIdx, f, yearIdx, csv, err,
                   writeVars>>

SetMin(S) == CHOOSE x \in S : \A y \in S : x <= y
SetMax(S) == CHOOSE x \in S : \A y \in S : y <= x

\* index.min() and index.max() of the frames that have rows (the NaT of an
\* empty index compares false on lines 140 and 142).  A date_range is in
\* increasing order, so its ends are its extremes.
IndexMins(frames) ==
    {frames[k].index[1] : k \in {j \in DOMAIN frames : frames[j].index # <<>>}}
IndexMaxs(frames) ==
    {frames[k].index[Len(frames[k].index)] :
        k \in {j \in DOMAIN frames : frames[j].index # <<>>}}

MergeZeroFilled(dates, frame, key) ==
    LET col == frame.cols[key]
    IN  [ts \in Range(dates) |-> IF ts \in DOMAIN col THEN col[ts] ELSE 0]

\* Lines 153-154 for one variable: the left join of the variable's column
\* onto the index dates.
MergeLeft(dates, frame, key) ==
    LET col == frame.cols[key]
    IN  [ts \in {t \in DOMAIN col : \E k \in 1..Len(dates) : dates[k] = t} |->
            col[ts]]

\* Lines 136-163: the union window of the variables, the daily index over
\* it, each variable joined onto it, and the frame saved as the site's CSV.
\* The function returns here and its locals go with it; snotel_dict is
\* kept until the next call rebinds it (line 62).
PrepareOutput ==
    /\ pc = "merge"
    /\ \E later \in now..(Now0 + MaxElapse) : now' = later
    /\ \E dates \in {DateRange(SetMin(IndexMins(snotel_dict) \cup {now'}),
                               SetMax(IndexMaxs(snotel_dict) \cup {now'}))} :
        LET site == catalog[siteIdx]
            frame == [index |-> dates,
                      site |-> site,
                      cols |-> [k \in DOMAIN snotel_dict |->
                                   MergeLeft(dates, snotel_dict[k], k)]]
        IN  csv' = WithCol(csv, site, frame)
    /\ siteIdx' = siteIdx + 1
    /\ pc' = "main"
    /\ csv_str' = NoTable
    /\ f' = NoTable
    /\ snotel_in' = NoFrame
    /\ UNCHANGED <<catalog, vars, varIdx, failed, tries, yearIdx, snotel_dict,
                   err, writeVars>>

-----------------------------------------------------------------------------
(* Specifications of the import side.                                      *)

NoTables == [n \in {} |-> <<>>]

WriteIdle ==
    /\ dbfile = FALSE
    /\ tables = NoTables
    /\ run = <<>>
    /\ started = 0
    /\ faults = 0

ImportInit(sites, varLists) ==
    /\ now = Now0
    /\ catalog = sites
    /\ vars \in varLists
    /\ siteIdx = 1
    /\ pc = "main"
    /\ varIdx = 1
    /\ failed = TRUE
    /\ tries = 0
    /\ csv_str = NoTable
    /\ f = NoTable
    /\ yearIdx = 1
    /\ snotel_in = NoFrame
    /\ snotel_dict = NoCols
    /\ csv = NoCols
    /\ err = NoErr
    /\ WriteIdle

\* The reconstruction of one variable of one site, over every table of
\* ReconTables.
InitReconstruct == ImportInit(<<"S1">>, {<<"WTEQ">>, <<"PREC">>})

NextReconstruct ==
    \/ ImportSite
    \/ ImportsDone
    \/ FetchOk(ReconTables)
    \/ BuildIndex
    \/ YearColumn
    \/ StoreVar
    \/ PrepareOutput

SpecReconstruct == InitReconstruct /\ [][NextReconstruct]_allVars

\* A whole import run: two sites, two variables each, over ImportTables.
InitImport == ImportInit(<<"S1", "S2">>, {<<"WTEQ", "PREC">>})

NextImport ==
    \/ ImportSite
    \/ ImportsDone
    \/ FetchOk(ImportTables)
    \/ BuildIndex
    \/ YearColumn
    \/ StoreVar
    \/ PrepareOutput

SpecImport == InitImport /\ [][NextImport]_allVars

-----------------------------------------------------------------------------
(* write_db and get_unique_dates.  A row of the merged table is            *)
(* [date, site]; a table of the sqlite file is the sequence of its rows.   *)

Sites == {"A", "B"}

\* df[df['site'] == site], in the order of df.
RECURSIVE SiteRows(_, _)
SiteRows(df, site) ==
    IF df = <<>> THEN <<>>
    ELSE IF Head(df).site = site THEN <<Head(df)>> \o SiteRows(Tail(df), site)
    ELSE SiteRows(Tail(df), site)

\* pd.unique(df['site']): the sites of df in the order they first appear.
RECURSIVE UniqueSites(_)
UniqueSites(df) ==
    IF df = <<>> THEN <<>>
    ELSE LET front == UniqueSites(SubSeq(df, 1, Len(df) - 1))
             s == df[Len(df)].site
         IN  IF \E k \in 1..Len(front) : front[k] = s THEN front
             ELSE Append(front, s)

\* f"snotel_{site_id}", the name to_sql writes to on line 248.
TableNameOfSensor(site) == "snotel_dv"

TableName(site) == "snotel_" \o site

\* get_unique_dates(tbl_name, db_path): the dates a table holds; no dates
\* when the file is missing (line 194) or the select fails because there is
\* no table of that name (lines 204-205).  The frame those two returns give
\* holds no date, so isin() on line 240 finds none.
get_unique_dates(tbl_name) ==
    IF ~dbfile THEN {}
    ELSE IF tbl_name \notin DOMAIN tables THEN {}
    ELSE {tables[tbl_name][k].date : k \in 1..Len(tables[tbl_name])}

\* df_site[~df_site['date'].isin(unique_dates)]
RECURSIVE NotIn(_, _)
NotIn(rows, dates) ==
    IF rows = <<>> THEN <<>>
    ELSE IF Head(rows).date \in dates THEN NotIn(Tail(rows), dates)
    ELSE <<Head(rows)>> \o NotIn(Tail(rows), dates)

ToSqlKeepsOld(old, rows, if_exists) == old \o rows

\* The rows of a table after to_sql(rows, if_exists=...) returns, old being
\* the rows it had (none when it did not exist).
ToSql(old, rows, if_exists) ==
    IF if_exists = "replace" THEN rows ELSE old \o rows

RowsOf(tbls, name) == IF name \in DOMAIN tbls THEN tbls[name] ELSE <<>>

WithTable(tbls, name, rows) ==
    [n \in DOMAIN tbls \cup {name} |-> IF n = name THEN rows ELSE tbls[n]]

\* The merged tables get_dfs hands over: for each of some sites the frame
\* of the dates 1..hi, the frames one after the other in the order of the
\* file names.
SiteFrame(site, hi) == [d \in 1..hi |-> [date |-> d, site |-> site]]

Dfs ==
    {SiteFrame(s, hi) : s \in Sites, hi \in 1..MaxDate}
      \cup {SiteFrame("A", hi) \o SiteFrame("B", hj) :
               hi \in 1..MaxDate, hj \in 1..MaxDate}

\* The (if_exists, check_dups) arguments that differ in effect: check_dups
\* is read only when if_exists is 'append' (line 235).
Modes ==
    {[if_exists |-> "replace", check_dups |-> FALSE],
     [if_exists |-> "append", check_dups |-> FALSE],
     [if_exists |-> "append", check_dups |-> TRUE],
     [if_exists |-> "fail", check_dups |-> FALSE]}

Ended(r) == run[r].pc \in {"done", "aborted"}

\* write_db at the head of its loop, lines 214-224.
NewRun(df, mode) ==
    [df |-> df,
     if_exists |-> mode.if_exists,
     check_dups |-> mode.check_dups,
     site_list |-> UniqueSites(df),
     i |-> 1,
     pc |-> "select",
     df_site |-> <<>>,
     before |-> tables,
     outcome |-> [s \in {} |-> ""]]

\* A run started when no other run is under way: the single writer.  Of
\* the runs that have ended only the last is kept.
BeginWrite ==
    /\ started < MaxRuns
    /\ \A r \in 1..Len(run) : Ended(r)
    /\ \E df \in Dfs, mode \in Modes :
          run' = (IF run = <<>> THEN <<>> ELSE <<run[Len(run)]>>)
                    \o <<NewRun(df, mode)>>
    /\ started' = started + 1
    /\ UNCHANGED <<dbfile, tables, faults, importVars>>

\* A run started whatever the other runs are doing.
BeginConcurrent ==
    /\ started < MaxRuns
    /\ \E df \in Dfs, mode \in Modes : run' = Append(run, NewRun(df, mode))
    /\ started' = started + 1
    /\ UNCHANGED <<dbfile, tables, faults, importVars>>

\* Lines 225-242 for the site at hand: its rows, less the dates the dedup
\* read returns in append mode with check_dups.
SelectSite(r) ==
    /\ run[r].pc = "select"
    /\ run[r].i <= Len(run[r].site_list)
    /\ LET site == run[r].site_list[run[r].i]
           rows == SiteRows(run[r].df, site)
           site_id == site
           kept == IF run[r].if_exists = "append" /\ run[r].check_dups
                   THEN NotIn(rows, get_unique_dates(site_id))
                   ELSE rows
       IN  run' = [run EXCEPT ![r].df_site = kept, ![r].pc = "write"]
    /\ UNCHANGED <<dbfile, tables, started, faults, importVars>>

\* The next pass of the loop, or its end.
Advance(rec, site, result) ==
    [rec EXCEPT !.outcome = [s \in DOMAIN rec.outcome \cup {site} |->
                                IF s = site THEN result ELSE rec.outcome[s]],
                !.i = rec.i + 1,
                !.pc = IF rec.i + 1 <= Len(rec.site_list) THEN "select"
                       ELSE "done"]

\* Lines 243-259 where connect and to_sql return: the site's table is
\* written.  With if_exists='fail' and the table already there, to_sql
\* raises ValueError, which "except sqlite3.Error" does not catch: after the
\* finally clause the exception leaves write_db.
WriteSite(r) ==
    /\ run[r].pc = "write"
    /\ LET site == run[r].site_list[run[r].i]
           name == TableName(site)
       IN  IF run[r].if_exists = "fail" /\ name \in DOMAIN tables
           THEN /\ run' = [run EXCEPT ![r].pc = "aborted",
                                      ![r].outcome =
                                          [s \in DOMAIN run[r].outcome \cup {site} |->
                                              IF s = site THEN "raised"
                                              ELSE run[r].outcome[s]]]
                /\ dbfile' = TRUE
                /\ UNCHANGED tables
           ELSE /\ tables' = WithTable(tables, name,
                                 ToSql(RowsOf(tables, name), run[r].df_site,
                                       run[r].if_exists))
                /\ dbfile' = TRUE
                /\ run' = [run EXCEPT ![r] = Advance(run[r], site, "written")]
    /\ UNCHANGED <<started, faults, importVars>>

\* Lines 243-259 where connect or to_sql raises sqlite3.Error: the handler
\* of line 254 reports it and the loop goes on.  Either nothing was done
\* (connect failed), or a replace had already dropped and recreated the
\* table when the insert failed.
WriteSiteError(r) ==
    /\ run[r].pc = "write"
    /\ faults < MaxFaults
    /\ faults' = faults + 1
    /\ LET site == run[r].site_list[run[r].i]
           name == TableName(site)
       IN  /\ \/ UNCHANGED <<dbfile, tables>>
              \/ /\ run[r].if_exists = "replace"
                 /\ dbfile' = TRUE
                 /\ tables' = WithTable(tables, name, <<>>)
           /\ run' = [run EXCEPT ![r] = Advance(run[r], site, "error")]
    /\ UNCHANGED <<started, importVars>>

-----------------------------------------------------------------------------
(* Claims about the reconstruction (SpecReconstruct).                      *)

\* The variable being imported and the column it has in snotel_in.
CurVar == vars[varIdx]
Emitted == IF CurVar \in DOMAIN snotel_in.cols THEN snotel_in.cols[CurVar]
           ELSE NoCells

\* The reported cells of the parsed table under integer columns.
IntCells == {rc \in DOMAIN f.cells : IntOk(f.columns[rc[2]])}

\* The calendar year the water-year rule gives a cell, and whether the
\* cell's month and day make a date of that year.
RuleYear(rc) ==
    IF LabelMonth(f.index[rc[1]]) >= 10 THEN IntOf(f.columns[rc[2]]) - 1
    ELSE IntOf(f.columns[rc[2]])
RuleDateExists(rc) ==
    LabelDay(f.index[rc[1]])
        <= DaysInMonth(RuleYear(rc), LabelMonth(f.index[rc[1]]))
RuleDate(rc) ==
    Midnight(Ordinal(RuleYear(rc), LabelMonth(f.index[rc[1]]),
                     LabelDay(f.index[rc[1]])))

\* The loop over the columns of the table has ended, by running out of
\* columns or by an exception.
ColumnsEnded ==
    \/ pc = "year" /\ yearIdx > Len(f.columns)
    \/ pc = "aborted" /\ err.line \in {118, 123}

\* C1 (as claimed): once the loop over the columns of a raw table has ended,
\* every reported cell at row MM-DD under an integer water-year column Y
\* has been emitted at (Y-1)-MM-DD when MM >= 10 and at Y-MM-DD when
\* MM < 10, with the cell's value, and nothing is emitted at any other date.
C1_EveryCellEmitted ==
    ColumnsEnded =>
        /\ \A rc \in IntCells :
              RuleDateExists(rc) =>
                  /\ RuleDate(rc) \in DOMAIN Emitted
                  /\ Emitted[RuleDate(rc)] = f.cells[rc]
        /\ \A ts \in DOMAIN Emitted :
              \E rc \in IntCells : RuleDateExists(rc) /\ RuleDate(rc) = ts

\* What the code does keep of C1: a loop over the columns that ran to its
\* end has emitted exactly the cells of the table at the dates of the rule.
C1_WhenNoRaise ==
    (pc = "year" /\ yearIdx > Len(f.columns)) =>
        /\ \A rc \in IntCells :
              /\ RuleDateExists(rc)
              /\ RuleDate(rc) \in DOMAIN Emitted
              /\ Emitted[RuleDate(rc)] = f.cells[rc]
        /\ \A ts \in DOMAIN Emitted : \E rc \in IntCells : RuleDate(rc) = ts

\* The boundary example reconstructed: 10-01 and 01-15 of water year 2021
\* at 2020-10-01 and 2021-01-15, 09-30 of water year 2020 at 2020-09-30.
C1_BoundaryReached ==
    /\ pc = "year" /\ yearIdx > Len(f.columns)
    /\ f = BoundaryExample
    /\ Emitted = (Midnight(Ordinal(2020, 10, 1)) :> 5)
                   @@ (Midnight(Ordinal(2021, 1, 15)) :> 7)
                   @@ (Midnight(Ordinal(2020, 9, 30)) :> 9)

\* A reported cell of the row 02-29.
LeapCells == {rc \in IntCells : f.index[rc[1]] = L0229}

\* C5 (as claimed): a reported 02-29 cell never makes the reconstruction
\* raise; under a year that is no leap year the point is dropped and the
\* rest of the column is still reconstructed.
C5_LeapDayNeverRaises ==
    (\E rc \in LeapCells : ~IsLeap(RuleYear(rc))) => pc # "aborted"

\* The leap day of a leap year is emitted: 02-29 under 2020 at 2020-02-29.
C5_LeapDayEmitted ==
    /\ pc = "year" /\ yearIdx > Len(f.columns)
    /\ \E rc \in LeapCells :
          /\ IsLeap(RuleYear(rc))
          /\ Midnight(Ordinal(2020, 2, 29)) \in DOMAIN Emitted

\* C4: where lines 130-131 derive PREC from the cumulative column, the first
\* date of the index is NaN, every later date t holds cumulative[t] -
\* cumulative[t-1] set to 0 when negative (NaN when either day is NaN), and
\* no derived value is negative.
C4_IncrementsClamped ==
    [][(pc = "year" /\ pc' \in {"fetch", "merge"} /\ CurVar = "PREC") =>
          LET index == snotel_in.index
              cum == snotel_in.cols["PREC"]
              inc == snotel_in'.cols["PREC"]
          IN  /\ snotel_in'.index = index
              /\ \A ts \in DOMAIN inc :
                    inc[ts] >= 0 /\ \E k \in 1..Len(index) : index[k] = ts
              /\ Len(index) > 0 => index[1] \notin DOMAIN inc
              /\ \A k \in 2..Len(index) :
                    IF index[k] \in DOMAIN cum /\ index[k - 1] \in DOMAIN cum
                    THEN /\ index[k] \in DOMAIN inc
                         /\ inc[index[k]] =
                              (IF cum[index[k]] < cum[index[k - 1]] THEN 0
                               ELSE cum[index[k]] - cum[index[k - 1]])
                    ELSE index[k] \notin DOMAIN inc
      ]_allVars

\* Cumulative 100, 100, 98, 105 from 2019-10-01 has derived NaN, 0, 0, 7.
C4_ExampleDerived ==
    /\ pc = "merge"
    /\ f = PrecExample
    /\ "PREC" \in DOMAIN snotel_dict
    /\ snotel_dict["PREC"].index[1] = Midnight(Ordinal(2019, 10, 1))
    /\ snotel_dict["PREC"].cols["PREC"] =
          (Midnight(Ordinal(2019, 10, 2)) :> 0)
            @@ (Midnight(Ordinal(2019, 10, 3)) :> 0)
            @@ (Midnight(Ordinal(2019, 10, 4)) :> 7)

-----------------------------------------------------------------------------
(* Claims about a whole import run (SpecImport).                           *)

\* A table whose first row label is missing or is no MM-DD day.
BadFirstRow(t) == Len(t.index) = 0 \/ ~LabelShape(t.index[1])

\* A table none of whose column labels parses as an integer.
NoIntegerColumn(t) == \A c \in 1..Len(t.columns) : ~IntOk(t.columns[c])

\* C6 (as claimed): a table with a malformed or missing first row label, or
\* with column labels that do not parse as integers, is absent coverage for
\* its (site, variable) pair: the run is not ended by it and goes on with
\* the remaining variables and sites.
C6_ErrorConfined ==
    (f # NoTable /\ (BadFirstRow(f) \/ NoIntegerColumn(f))) => pc # "aborted"

\* The site whose import has just returned.
LastSite == catalog[siteIdx - 1]
Returned == pc \in {"main", "finished"} /\ siteIdx > 1

\* C7: the date index of the frame the merge step builds for a site is a
\* contiguous daily index: strictly increasing, so free of duplicates, each
\* entry the day after the one before it; and each variable's column holds
\* exactly the values of the variable's series, NaN on every other day.
C7_ContiguousIndex ==
    Returned =>
        LET frame == csv[LastSite]
            index == frame.index
        IN  /\ \A k \in 1..(Len(index) - 1) :
                  /\ index[k] < index[k + 1]
                  /\ DayOf(index[k + 1]) = DayOf(index[k]) + 1
            /\ DOMAIN frame.cols = DOMAIN snotel_dict
            /\ \A key \in DOMAIN snotel_dict :
                  frame.cols[key] = snotel_dict[key].cols[key]

\* A frame merged from two series of different windows (one from
\* 2019-10-01, one from 2020-10-01), with a value on one day of a variable
\* and none on the next day.
C7_SparseMerged ==
    /\ Returned
    /\ \E a, b \in DOMAIN snotel_dict :
          /\ snotel_dict[a].index[1] = Midnight(Ordinal(2019, 10, 1))
          /\ snotel_dict[b].index[1] = Midnight(Ordinal(2020, 10, 1))
          /\ csv[LastSite].index[1] = Midnight(Ordinal(2019, 10, 1))
          /\ \E ts \in DOMAIN csv[LastSite].cols[b] :
                (ts + TicksPerDay) \notin DOMAIN csv[LastSite].cols[b]

-----------------------------------------------------------------------------
(* Specifications of the write side.                                       *)

ImportIdle ==
    /\ now = Now0
    /\ catalog = <<>>
    /\ vars = <<>>
    /\ siteIdx = 1
    /\ pc = "finished"
    /\ varIdx = 1
    /\ failed = TRUE
    /\ tries = 0
    /\ csv_str = NoTable
    /\ f = NoTable
    /\ yearIdx = 1
    /\ snotel_in = NoFrame
    /\ snotel_dict = NoCols
    /\ csv = NoCols
    /\ err = NoErr

InitWrite == ImportIdle /\ WriteIdle

\* Runs of write_db on one store, one after the other.
NextWrite ==
    \/ BeginWrite
    \/ \E r \in 1..Len(run) : SelectSite(r)
    \/ \E r \in 1..Len(run) : WriteSite(r)
    \/ \E r \in 1..Len(run) : WriteSiteError(r)

Spec == InitWrite /\ [][NextWrite]_allVars

\* Runs of write_db on one store at the same time, as separate processes.
NextConcurrent ==
    \/ BeginConcurrent
    \/ \E r \in 1..Len(run) : SelectSite(r)
    \/ \E r \in 1..Len(run) : WriteSite(r)
    \/ \E r \in 1..Len(run) : WriteSiteError(r)

SpecConcurrent == InitWrite /\ [][NextConcurrent]_allVars

-----------------------------------------------------------------------------
(* Claims about write_db, one run after the other (Spec).                  *)

\* The run under way or, when none is, the run that ended last.
Cur == run[Len(run)]

SitesOf(rec) == Range(rec.site_list)

\* Every site of a run's table was written by the run.
AllWritten(rec) ==
    /\ rec.pc = "done"
    /\ \A s \in SitesOf(rec) : rec.outcome[s] = "written"

AppendDedup(rec) == rec.if_exists = "append" /\ rec.check_dups

\* C2 (as claimed): write_db run twice in a row with if_exists='append' and
\* check_dups=True on the same merged table leaves every table as the first
\* run left it: the second run appends no row.
C2_SecondRunAddsNothing ==
    (/\ Len(run) = 2
     /\ AppendDedup(run[1]) /\ AppendDedup(run[2])
     /\ run[1].df = run[2].df
     /\ AllWritten(run[1]) /\ AllWritten(run[2]))
        => tables = run[2].before

\* C3 (as claimed): when a run has ended, every site of its table has been
\* written, but for the sites whose own write failed: a failed write stops
\* no other site's write, in any mode.
C3_OtherSitesWritten ==
    \A r \in 1..Len(run) :
        Ended(r) =>
            \A s \in SitesOf(run[r]) :
                /\ s \in DOMAIN run[r].outcome
                /\ run[r].outcome[s] \in {"written", "error", "raised"}

C9_OtherTablesUntouched ==
    run # <<>> =>
        \A s \in Sites \ SitesOf(Cur) :
            /\ TableName(s) \in DOMAIN tables <=> TableName(s) \in DOMAIN Cur.before
            /\ RowsOf(tables, TableName(s)) = RowsOf(Cur.before, TableName(s))

\* A run has ended that changed the store while a site with a table of its
\* own was absent from the incoming table.
C9_AbsentSiteKept ==
    /\ run # <<>>
    /\ Cur.pc = "done"
    /\ tables # Cur.before
    /\ \E s \in Sites \ SitesOf(Cur) : RowsOf(tables, TableName(s)) # <<>>

-----------------------------------------------------------------------------
(* Claims about runs of write_db at the same time (SpecConcurrent).        *)

\* C10 (as claimed): between the dedup read of a run in append mode with
\* check_dups and the run's append to the same site's table, no other run
\* writes that table.
C10_DedupReadAppendAtomic ==
    [][\A r \in 1..Len(run) :
          (/\ run[r].pc = "write"
           /\ AppendDedup(run[r])
           /\ run'[r].pc = "write")
              => LET name == TableName(run[r].site_list[run[r].i])
                 IN  /\ name \in DOMAIN tables' <=> name \in DOMAIN tables
                     /\ RowsOf(tables', name) = RowsOf(tables, name)
      ]_allVars

-----------------------------------------------------------------------------
(* The retry loop of import_snotel (SpecRetry).                            *)

\* The limit the loop compares tries with (line 83).
TryLimit == 10

\* One site, one variable; every GET may return a table or fail.  The
\* interpreter always takes the next step of the program.
InitRetry == ImportInit(<<"S1">>, {<<"WTEQ">>})

NextRetry ==
    \/ ImportSite
    \/ ImportsDone
    \/ FetchOk(ImportTables)
    \/ FetchFail
    \/ BuildIndex
    \/ YearColumn
    \/ StoreVar
    \/ PrepareOutput

SpecRetry == InitRetry /\ [][NextRetry]_allVars /\ WF_allVars(NextRetry)

\* C11 (as claimed): the retry loop gives up at its limit: it is never at
\* its head, about to send another GET, with more than the 10 failed tries
\* it counts behind it.
C11_GivesUpAtLimit ==
    (pc = "fetch" /\ failed) => tries <= TryLimit

=============================================================================
